---- MODULE Spec2Model ----
(***************************************************************************)
(* Appointment lifecycle of the clinic backend: staff routes               *)
(* (routes/appointments.js), patient portal routes (two revisions of       *)
(* routes/patientBooking.js), the unlock route of routes/patients.js and   *)
(* the Appointment schema with its save hooks.                             *)
(*                                                                         *)
(* The store is the pair (appts, patients).  An appointment's _id is its   *)
(* position in appts.  With requests run one at a time every handler is    *)
(* one action: Spec runs every route on a single appointment, SpecSlots    *)
(* the routes that place and confirm appointments on MaxAppts of them,     *)
(* SpecStrikes the routes that write patient records.  SpecRace splits     *)
(* the staff create and the staff status update at their awaits to expose  *)
(* the check-then-write races.  SpecCancellation and SpecReschedule run    *)
(* the request/review routes on one appointment and remember in prior      *)
(* what it was when the request was made; SpecProposals and SpecPlacement  *)
(* run the routes that move or place appointments; SpecCutoff adds the     *)
(* server clock to the patient's requests.                                 *)
(* SpecBooking runs the portal booking against patient                     *)
(* records staff can edit or delete; SpecNotify records the events each    *)
(* staff request emits; SpecOwnership lets two accounts call the portal    *)
(* routes; SpecSettings interleaves Settings.getSettings calls.            *)
(***************************************************************************)
EXTENDS Integers, Sequences, FiniteSets, TLC

\* ------------------------------------------------------------------ bounds
MaxAppts == 2          \* appointments ever stored
MaxNoShow == 3         \* cap on a patient's noShowCount
NumReqs == 2           \* concurrent in-flight requests under SpecRace
NumCalls == 4          \* concurrent Settings.getSettings calls under SpecSettings

\* ------------------------------------------------------- program constants
LockThreshold == 3     \* strikes that lock booking
CutoffHours == 2       \* hours before the start at which patient requests close
StaffNotesMax == 1000  \* maxlength of staffNotes in the schema
SlotMinutes == 30      \* length of a bookable slot

None == "none"

Doctor == "Dr. Maria Sarah L. Manaloto"

\* Calendar days a request may name.  Monday is a working day of the doctor
\* in both the schema's schedule table and the default settings; Tuesday is
\* not.
Days == {"Mon", "Tue"}
Times == {"09:00 AM", "09:30 AM"}

\* Times a request may name beyond the slots the clinic offers: the
\* validators accept any hh:mm AM/PM.
AnyTimes == Times \cup {"08:00 PM"}

\* The doctor's hours in the default settings document; Tuesday is disabled.
DoctorHours(day) ==
  IF day = "Mon"
    THEN [start |-> <<8, 0>>, end |-> <<12, 0>>, enabled |-> TRUE]
    ELSE [start |-> <<0, 0>>, end |-> <<0, 0>>, enabled |-> FALSE]

\* generateTimeSlots(startTime, endTime, intervalMinutes): the slot starts,
\* in minutes since midnight.
GenerateTimeSlots(startTime, endTime, intervalMinutes) ==
  LET startMinutes == startTime[1] * 60 + startTime[2]
      endMinutes == endTime[1] * 60 + endTime[2]
  IN  {m \in startMinutes..(endMinutes - 1) :
         (m - startMinutes) % intervalMinutes = 0}

\* Portal accounts (PatientUser documents).
Users == {"u1"}
\* Patient records.  The record of a portal account is keyed by the
\* account's e-mail and named after the account; "w1" is a patient that
\* staff registered without an e-mail address.
PatientIds == Users \cup {"w1"}

Statuses == {"scheduled", "confirmed", "completed", "cancelled", "no-show",
             "rescheduled", "cancellation_pending", "reschedule_pending"}

\* Values the validator of PATCH /:id/status lets through.
StaffStatuses == {"scheduled", "confirmed", "completed", "cancelled",
                  "no-show", "rescheduled"}

\* A stored Date: calendar day and the UTC hour it was built with.
NoDate == [day |-> None, hour |-> 0]

\* new Date("YYYY-MM-DD"): midnight UTC of that day.
ParseISODate(day) == [day |-> day, hour |-> 0]

\* new Date(Date.UTC(y, m - 1, d, 12, 0, 0)): noon UTC of that day.
ParseNoonUTC(day) == [day |-> day, hour |-> 12]

\* Weekdays on which the schema's pre-save hook accepts the doctor.
SchemaWorkingDays == {"Mon"}

\* Weekdays enabled for the doctor in the default settings document.
SettingsEnabledDays == {"Mon"}

\* Defaults Mongoose gives the nested request paths of a new appointment:
\* status defaults to 'pending', everything else is unset.
DefaultRequest ==
  [status |-> "pending", preferredDate |-> NoDate, preferredTime |-> None,
   requestedBy |-> None]

DefaultCancellation == [status |-> "pending", requestedBy |-> None]

NoSnapshot == [originalDate |-> NoDate, originalTime |-> None]

\* Bookkeeping, no path of the schema: status and slot of an appointment.
NoPrior == [status |-> None, date |-> NoDate, time |-> None]

Prior(a) ==
  [status |-> a.status, date |-> a.appointmentDate, time |-> a.appointmentTime]

\* time12h.split(' ') and time.split(':') of an appointmentTime.
SplitTime(t) ==
  CASE t = "09:00 AM" -> [hours |-> 9, minutes |-> 0, modifier |-> "AM"]
    [] t = "09:30 AM" -> [hours |-> 9, minutes |-> 30, modifier |-> "AM"]
    [] t = "08:00 PM" -> [hours |-> 8, minutes |-> 0, modifier |-> "PM"]

\* convertTo24Hour(time12h), read as minutes since midnight.
ConvertTo24Hour(t) ==
  LET s == SplitTime(t)
      h == IF s.hours = 12 THEN 0 ELSE s.hours
      hours == IF s.modifier = "PM" THEN h + 12 ELSE h
  IN  hours * 60 + s.minutes

\* Midnight of a calendar day, in minutes since Monday 00:00.
DayStart(day) == IF day = "Tue" THEN 24 * 60 ELSE 0

\* new Date(`${appointmentDate.toISOString().split('T')[0]}T${convertTo24Hour(
\* appointmentTime)}`): the start of the appointment.  The hour the stored
\* Date was built with is cut off with the 'T'.
AppointmentDateTime(a) ==
  DayStart(a.appointmentDate.day) + ConvertTo24Hour(a.appointmentTime)

\* Clock readings around the cutoff of each slot on Monday.
Instants ==
  {ConvertTo24Hour(t) - CutoffHours * 60 + d : t \in Times, d \in {-1, 0, 1}}

VARIABLES
  appts,      \* the appointments collection, in insertion order
  patients,   \* the patients collection
  strikes,    \* per patient: stored transitions into no-show since the last unlock
  reqs,       \* in-flight requests (SpecRace only)
  resp,       \* the last response sent
  prior,      \* per appointment: what it was when its outstanding request
              \* was made (SpecCancellation and SpecReschedule only)
  now,        \* the server clock, in minutes since Monday 00:00 (SpecCutoff only)
  emitted,    \* the events the last staff request emitted (SpecNotify only)
  caller,     \* the account and target of the last portal request (SpecOwnership only)
  settings,   \* the documents of the settings collection, in insertion order
  calls       \* the Settings.getSettings calls in flight (SpecSettings only)

vars == <<appts, patients, strikes, reqs, resp, prior, now, emitted, caller, settings, calls>>

Ids == 1..Len(appts)

\* No portal request answered yet.
NoCaller == [account |-> None, appointment |-> 0]

\* A getSettings call: where it stands and the document it holds (0: none).
IdleCall == [pc |-> "idle", doc |-> 0]

\* The no-show fields of a patient record that never had a no-show.  The
\* handlers read and write noShowCount and appointmentLocked; the revision of
\* the Patient schema that declares them is not among the sources.
NoShowDefaults == [noShowCount |-> 0, appointmentLocked |-> FALSE]

\* A patient record as the registration and booking routes create it.
NewPatient == [exists |-> TRUE, status |-> "New",
               noShowCount |-> NoShowDefaults.noShowCount,
               appointmentLocked |-> NoShowDefaults.appointmentLocked]

\* No record in the collection under this key.
AbsentPatient == [NewPatient EXCEPT !.exists = FALSE]

\* An in-flight request: where its handler stands and what it holds in
\* memory (request parameters, the status it loaded, the patient it read).
IdleReq == [pc |-> "idle", apt |-> 0, patient |-> None, date |-> NoDate,
            time |-> None, status |-> None, prev |-> None, pt |-> AbsentPatient]

NoSlot == [date |-> NoDate, time |-> None]

\* The last request answered: the route, the HTTP status, on a lock refusal
\* the noShowCount it surfaces (-1: none) and, on a slot-conflict refusal of
\* a create or booking, the slot that was asked for.
Response(op, code) ==
  [op |-> op, code |-> code, noShowCount |-> -1, slot |-> NoSlot]

Init ==
  /\ appts = <<>>
  /\ patients = [p \in PatientIds |->
                   IF p = "w1" THEN NewPatient ELSE AbsentPatient]
  /\ strikes = [p \in PatientIds |-> 0]
  /\ reqs = [r \in 1..NumReqs |-> IdleReq]
  /\ resp = Response("init", 0)
  /\ prior = [i \in 1..MaxAppts |-> NoPrior]
  /\ now = CHOOSE t \in Instants : \A x \in Instants : t <= x
  /\ emitted = {}
  /\ caller = NoCaller
  /\ settings = <<>>
  /\ calls = [c \in 1..NumCalls |-> IdleCall]

\* The schema's validation on save: appointmentDate and appointmentTime are
\* required, and the pre-save hook rejects a weekday the doctor's schedule
\* table does not list.
SaveValid(a) ==
  /\ a.appointmentDate # NoDate
  /\ a.appointmentTime # None
  /\ a.appointmentDate.day \in SchemaWorkingDays

\* PatientUser.findOne({ email: patient.contactInfo.email }): the account
\* that shares the patient record's e-mail, if there is one.
LinkedUser(p) == IF p \in Users THEN p ELSE None

\* ------------------------------------------------------------ store helpers
NewAppointment(p, u, date, time, source) ==
  [status |-> "scheduled", doctorName |-> Doctor, appointmentDate |-> date,
   appointmentTime |-> time, patient |-> p, patientUserId |-> u,
   bookingSource |-> source, rescheduleRequest |-> DefaultRequest,
   cancellationRequest |-> DefaultCancellation, rescheduledFrom |-> NoSnapshot]

\* Appointment.findOne({ doctorName, appointmentDate, appointmentTime,
\*                       status: { $in: statuses } })
SlotTaken(doctor, date, time, statuses) ==
  \E i \in Ids :
    /\ appts[i].doctorName = doctor
    /\ appts[i].appointmentDate = date
    /\ appts[i].appointmentTime = time
    /\ appts[i].status \in statuses

\* The same query with _id: { $ne: id }.
SlotTakenByOther(id, doctor, date, time, statuses) ==
  \E i \in Ids \ {id} :
    /\ appts[i].doctorName = doctor
    /\ appts[i].appointmentDate = date
    /\ appts[i].appointmentTime = time
    /\ appts[i].status \in statuses

Refuse(op, code) ==
  /\ resp' = Response(op, code)
  /\ UNCHANGED <<appts, patients, strikes, reqs>>

\* The 400 a create or booking answers when its conflict query finds a
\* document.
RefuseConflict(op, date, time) ==
  /\ resp' = [Response(op, 400) EXCEPT !.slot = [date |-> date, time |-> time]]
  /\ UNCHANGED <<appts, patients, strikes, reqs>>

\* appointment.save() of a loaded document: stored when the schema accepts
\* it, otherwise the handler's catch answers 500 and the document stays.
SaveAppointment(op, id, a) ==
  IF SaveValid(a)
    THEN /\ appts' = [appts EXCEPT ![id] = a]
         /\ resp' = Response(op, 200)
    ELSE /\ appts' = appts
         /\ resp' = Response(op, 500)

\* --------------------------------------------- routes/appointments.js, staff
\* A conflict check that looks at confirmed appointments only.
StaffCreateConflictConfirmed(date, time) ==
  SlotTaken(Doctor, date, time, {"confirmed"})

\* POST / : conflict check against scheduled and confirmed appointments.
StaffCreateConflict(date, time) ==
  SlotTaken(Doctor, date, time, {"scheduled", "confirmed"})

\* POST / (create appointment)
StaffCreate(p, day, time) ==
  LET date == ParseISODate(day)
      a == NewAppointment(p, LinkedUser(p), date, time, "staff")
  IN  IF ~patients[p].exists THEN Refuse("create", 404)
      ELSE IF StaffCreateConflict(date, time) THEN RefuseConflict("create", date, time)
      ELSE IF ~SaveValid(a) THEN Refuse("create", 500)
      ELSE /\ Len(appts) < MaxAppts
           /\ appts' = Append(appts, a)
           /\ resp' = Response("create", 201)
           /\ UNCHANGED <<patients, strikes, reqs>>

\* PATCH /:id/status : the paths the handler modifies, applied to document a.
\* previousStatus is the status the handler read when it loaded the document.
StatusUpdated(a, previousStatus, status) ==
  IF status = "confirmed"
    THEN [a EXCEPT !.status = status,
                   !.rescheduleRequest.status =
                      IF previousStatus = "reschedule_pending" THEN "rejected" ELSE @]
  ELSE IF status = "cancelled"
    THEN [a EXCEPT !.status = "cancelled",
                   !.cancellationRequest =
                      IF a.bookingSource = "patient_portal" /\ a.patientUserId # None
                        THEN [status |-> "approved", requestedBy |-> None]
                        ELSE @]
  ELSE [a EXCEPT !.status = status]

\* PATCH /:id/status : patient.status New -> Active on confirmation.
ConfirmedPatient(pt) ==
  IF pt.status = "New" THEN [pt EXCEPT !.status = "Active"] ELSE pt

\* A strike that locks one no-show late.
NoShowPatientLate(pt) ==
  [pt EXCEPT !.noShowCount = pt.noShowCount + 1,
             !.appointmentLocked =
                IF pt.noShowCount + 1 > LockThreshold THEN TRUE ELSE @]

\* PATCH /:id/status : the no-show strike.
NoShowPatient(pt) ==
  [pt EXCEPT !.noShowCount = pt.noShowCount + 1,
             !.appointmentLocked =
                IF pt.noShowCount + 1 >= LockThreshold THEN TRUE ELSE @]

\* A strike decision that ignores the previous status.
CountsNoShowAlways(status, previousStatus, p) ==
  /\ status = "no-show"
  /\ p # None
  /\ patients[p].exists

\* PATCH /:id/status : whether this request counts a strike.
CountsNoShow(status, previousStatus, p) ==
  /\ status = "no-show"
  /\ previousStatus # "no-show"
  /\ p # None
  /\ patients[p].exists

\* Bookkeeping of the transitions into no-show, read off the stored status of
\* appointment id before and after the step.
Observed(id) ==
  IF appts[id].status # "no-show" /\ appts'[id].status = "no-show"
    THEN [strikes EXCEPT ![appts[id].patient] = @ + 1]
    ELSE strikes

\* Lengths of the staffNotes a status update may carry (0: none).
NotesLengths == {0, StaffNotesMax, StaffNotesMax + 1}

\* PATCH /:id/status with staffNotes of the given length in the body.  The
\* patient is saved before the appointment; the appointment's save rejects
\* staffNotes longer than the schema allows and the catch answers 500.
UpdateStatusWith(id, status, staffNotes) ==
  LET a == appts[id]
      previousStatus == a.status
      p == a.patient
      a1 == StatusUpdated(a, previousStatus, status)
      confirms == status = "confirmed" /\ p # None /\ patients[p].exists
      strike == CountsNoShow(status, previousStatus, p)
  IN  /\ strike => patients[p].noShowCount < MaxNoShow
      /\ patients' =
           IF confirms THEN [patients EXCEPT ![p] = ConfirmedPatient(@)]
           ELSE IF strike THEN [patients EXCEPT ![p] = NoShowPatient(@)]
           ELSE patients
      /\ IF staffNotes > StaffNotesMax
           THEN /\ appts' = appts
                /\ resp' = Response("status", 500)
           ELSE SaveAppointment("status", id, a1)
      /\ strikes' = Observed(id)
      /\ UNCHANGED reqs

\* PATCH /:id/status without staffNotes
UpdateStatus(id, status) == UpdateStatusWith(id, status, 0)

\* An approval that does not look at the status.
ApproveCancellationAnyStatus(id) ==
  LET a == appts[id]
  IN  IF a.cancellationRequest.requestedBy = None
        THEN Refuse("approve-cancellation", 400)
      ELSE /\ SaveAppointment("approve-cancellation", id,
                  [a EXCEPT !.status = "cancelled",
                            !.cancellationRequest.status = "approved"])
           /\ UNCHANGED <<patients, strikes, reqs>>

\* PATCH /:id/approve-cancellation
ApproveCancellation(id) ==
  LET a == appts[id]
  IN  IF a.status # "cancellation_pending" THEN Refuse("approve-cancellation", 400)
      ELSE IF a.cancellationRequest.requestedBy = None
        THEN Refuse("approve-cancellation", 400)
      ELSE /\ SaveAppointment("approve-cancellation", id,
                  [a EXCEPT !.status = "cancelled",
                            !.cancellationRequest.status = "approved"])
           /\ UNCHANGED <<patients, strikes, reqs>>

\* PATCH /:id/reject-cancellation : cancellationRequest.previousStatus is no
\* path of the schema, so the handler reads it back unset and falls back to
\* "confirmed".
RejectCancellation(id) ==
  LET a == appts[id]
  IN  IF a.status # "cancellation_pending" THEN Refuse("reject-cancellation", 400)
      ELSE IF a.cancellationRequest.requestedBy = None
        THEN Refuse("reject-cancellation", 400)
      ELSE /\ SaveAppointment("reject-cancellation", id,
                  [a EXCEPT !.status = "confirmed",
                            !.cancellationRequest.status = "rejected"])
           /\ UNCHANGED <<patients, strikes, reqs>>

\* A reschedule that takes its snapshot after the move.
RescheduledSnapshotAfter(a, parsedDate, newTime) ==
  LET snap == [a EXCEPT !.rescheduledFrom =
                  [originalDate |-> parsedDate, originalTime |-> newTime]]
  IN  IF a.bookingSource = "patient_portal" /\ a.patientUserId # None
        THEN IF a.status = "reschedule_pending"
               THEN [snap EXCEPT !.appointmentDate = parsedDate,
                                 !.appointmentTime = newTime,
                                 !.status = "confirmed",
                                 !.rescheduleRequest.status = "approved"]
               ELSE [snap EXCEPT !.rescheduleRequest =
                                    [status |-> "pending",
                                     preferredDate |-> parsedDate,
                                     preferredTime |-> newTime,
                                     requestedBy |-> None],
                                 !.appointmentDate = parsedDate,
                                 !.appointmentTime = newTime,
                                 !.status = "reschedule_pending"]
        ELSE [snap EXCEPT !.appointmentDate = parsedDate,
                          !.appointmentTime = newTime,
                          !.status = "confirmed"]

\* PATCH /:id/reschedule : the appointment as the handler leaves it.
Rescheduled(a, parsedDate, newTime) ==
  LET snap == [a EXCEPT !.rescheduledFrom =
                  [originalDate |-> a.appointmentDate,
                   originalTime |-> a.appointmentTime]]
  IN  IF a.bookingSource = "patient_portal" /\ a.patientUserId # None
        THEN IF a.status = "reschedule_pending"
               THEN [snap EXCEPT !.appointmentDate = parsedDate,
                                 !.appointmentTime = newTime,
                                 !.status = "confirmed",
                                 !.rescheduleRequest.status = "approved"]
               ELSE [snap EXCEPT !.rescheduleRequest =
                                    [status |-> "pending",
                                     preferredDate |-> parsedDate,
                                     preferredTime |-> newTime,
                                     requestedBy |-> None],
                                 !.appointmentDate = parsedDate,
                                 !.appointmentTime = newTime,
                                 !.status = "reschedule_pending"]
        ELSE [snap EXCEPT !.appointmentDate = parsedDate,
                          !.appointmentTime = newTime,
                          !.status = "confirmed"]

\* PATCH /:id/reschedule
Reschedule(id, day, newTime) ==
  LET a == appts[id]
      parsedDate == ParseNoonUTC(day)
  IN  IF day \notin SettingsEnabledDays THEN Refuse("reschedule", 400)
      ELSE IF SlotTakenByOther(id, a.doctorName, parsedDate, newTime,
                               {"scheduled", "confirmed", "reschedule_pending"})
        THEN Refuse("reschedule", 400)
      ELSE /\ SaveAppointment("reschedule", id, Rescheduled(a, parsedDate, newTime))
           /\ UNCHANGED <<patients, strikes, reqs>>

\* An unlock that clears the flag and keeps the counter.
UnlockFlagOnly(p) ==
  IF ~patients[p].exists THEN Refuse("unlock", 404)
  ELSE /\ patients' = [patients EXCEPT ![p].appointmentLocked = FALSE]
       /\ strikes' = [strikes EXCEPT ![p] = 0]
       /\ resp' = Response("unlock", 200)
       /\ UNCHANGED <<appts, reqs>>

\* routes/patients.js, PATCH /:id/unlock-appointments
Unlock(p) ==
  IF ~patients[p].exists THEN Refuse("unlock", 404)
  ELSE /\ patients' = [patients EXCEPT ![p].appointmentLocked = FALSE,
                                       ![p].noShowCount = 0]
       /\ strikes' = [strikes EXCEPT ![p] = 0]
       /\ resp' = Response("unlock", 200)
       /\ UNCHANGED <<appts, reqs>>

\* Values of the Patient schema's status enum.
PatientStatuses == {"New", "Active", "Inactive"}

\* routes/patients.js, PUT /:id with { status } in the body.
UpdatePatient(p, status) ==
  IF ~patients[p].exists THEN Refuse("update-patient", 404)
  ELSE /\ patients' = [patients EXCEPT ![p].status = status]
       /\ resp' = Response("update-patient", 200)
       /\ UNCHANGED <<appts, strikes, reqs>>

\* routes/patients.js, DELETE /:id.  The appointments of the patient stay.
DeletePatient(p) ==
  IF ~patients[p].exists THEN Refuse("delete-patient", 404)
  ELSE /\ patients' = [patients EXCEPT ![p] = AbsentPatient]
       /\ strikes' = [strikes EXCEPT ![p] = 0]
       /\ resp' = Response("delete-patient", 200)
       /\ UNCHANGED <<appts, reqs>>

\* ------------------------------------- routes/patientBooking.js, the portal
\* POST /book-appointment : the patient record of the account, created with
\* status New when missing, reset from Inactive to New otherwise.  It is
\* saved before the lock guard and before the appointment is saved.
FoundOrCreatedPatient(pt) ==
  IF ~pt.exists THEN NewPatient
  ELSE IF pt.status = "Inactive" THEN [pt EXCEPT !.status = "New"]
  ELSE pt

\* A conflict check that also counts scheduled appointments.
BookingConflictScheduled(date, time) ==
  SlotTaken(Doctor, date, time, {"scheduled", "confirmed"})

\* POST /book-appointment : only a confirmed appointment blocks the slot.
BookingConflict(date, time) == SlotTaken(Doctor, date, time, {"confirmed"})

\* POST /book-appointment (revision with the lock guard)
BookAppointment(u, day, time) ==
  LET date == ParseISODate(day)
      pt == FoundOrCreatedPatient(patients[u])
      a == NewAppointment(u, u, date, time, "patient_portal")
  IN  IF BookingConflict(date, time) THEN RefuseConflict("book", date, time)
      ELSE /\ patients' = [patients EXCEPT ![u] = pt]
           /\ UNCHANGED <<strikes, reqs>>
           /\ IF pt.appointmentLocked
                THEN /\ resp' = [Response("book", 403) EXCEPT
                                   !.noShowCount = pt.noShowCount]
                     /\ appts' = appts
              ELSE IF ~SaveValid(a)
                THEN /\ resp' = Response("book", 500)
                     /\ appts' = appts
              ELSE /\ Len(appts) < MaxAppts
                   /\ appts' = Append(appts, a)
                   /\ resp' = Response("book", 201)

\* POST /book-appointment, other revision: any appointment that is not
\* cancelled blocks the slot.
BookingConflictStrict(date, time) ==
  SlotTaken(Doctor, date, time, Statuses \ {"cancelled"})

\* POST /book-appointment, other revision: the account already holds an
\* outstanding appointment (every date of the model lies in the future).
HasPendingAppointment(u) ==
  \E i \in Ids :
    /\ appts[i].patientUserId = u
    /\ appts[i].status \in {"scheduled", "confirmed", "cancellation_pending",
                            "reschedule_pending"}

\* POST /book-appointment (revision with the outstanding-appointment guard)
BookAppointmentGuarded(u, day, time) ==
  LET date == ParseISODate(day)
      pt == IF patients[u].exists THEN patients[u] ELSE NewPatient
      a == NewAppointment(u, u, date, time, "patient_portal")
  IN  IF BookingConflictStrict(date, time) THEN RefuseConflict("book-guarded", date, time)
      ELSE /\ patients' = [patients EXCEPT ![u] = pt]
           /\ UNCHANGED <<strikes, reqs>>
           /\ IF HasPendingAppointment(u)
                THEN /\ resp' = Response("book-guarded", 400)
                     /\ appts' = appts
              ELSE IF ~SaveValid(a)
                THEN /\ resp' = Response("book-guarded", 500)
                     /\ appts' = appts
              ELSE /\ Len(appts) < MaxAppts
                   /\ appts' = Append(appts, a)
                   /\ resp' = Response("book-guarded", 201)

\* PUT /cancel-appointment/:appointmentId.  late: the start is less than two
\* hours away.
CancelAppointment(u, id, late) ==
  LET a == appts[id]
  IN  IF a.patientUserId # u THEN Refuse("cancel", 404)
      ELSE IF a.status = "cancelled" THEN Refuse("cancel", 400)
      ELSE IF late THEN Refuse("cancel", 400)
      ELSE /\ SaveAppointment("cancel", id, [a EXCEPT !.status = "cancelled"])
           /\ UNCHANGED <<patients, strikes, reqs>>

\* POST /request-cancellation/:appointmentId.  previousStatus is no path of
\* the schema and is not stored.
RequestCancellation(u, id, late) ==
  LET a == appts[id]
  IN  IF a.patientUserId # u THEN Refuse("request-cancellation", 404)
      ELSE IF a.status \in {"cancelled", "cancellation_pending", "completed"}
        THEN Refuse("request-cancellation", 400)
      ELSE IF late THEN Refuse("request-cancellation", 400)
      ELSE /\ SaveAppointment("request-cancellation", id,
                  [a EXCEPT !.status = "cancellation_pending",
                            !.cancellationRequest =
                               [status |-> "pending", requestedBy |-> u]])
           /\ UNCHANGED <<patients, strikes, reqs>>

\* POST /request-reschedule/:appointmentId.  day = None: the request names
\* no date.
RequestReschedule(u, id, day, time) ==
  LET a == appts[id]
      parsedDate == IF day = None THEN NoDate ELSE ParseNoonUTC(day)
  IN  IF a.patientUserId # u THEN Refuse("request-reschedule", 404)
      ELSE IF a.status \in {"cancelled", "completed"}
        THEN Refuse("request-reschedule", 400)
      ELSE IF /\ day # None
              /\ SlotTakenByOther(id, a.doctorName, parsedDate, time,
                                  {"scheduled", "confirmed", "reschedule_pending"})
        THEN Refuse("request-reschedule", 400)
      ELSE /\ SaveAppointment("request-reschedule", id,
                  [a EXCEPT !.rescheduleRequest =
                               [status |-> "pending",
                                preferredDate |-> parsedDate,
                                preferredTime |-> IF day = None THEN None ELSE time,
                                requestedBy |-> u],
                            !.status = "reschedule_pending"])
           /\ UNCHANGED <<patients, strikes, reqs>>

\* POST /accept-reschedule/:appointmentId with a lookup by _id alone.
AcceptRescheduleAnyAccount(u, id) ==
  LET a == appts[id]
  IN  IF a.rescheduleRequest.status # "pending"
        THEN Refuse("accept-reschedule", 400)
      ELSE /\ SaveAppointment("accept-reschedule", id,
                  [a EXCEPT !.appointmentDate = a.rescheduleRequest.preferredDate,
                            !.appointmentTime = a.rescheduleRequest.preferredTime,
                            !.status = "confirmed",
                            !.rescheduleRequest.status = "approved"])
           /\ UNCHANGED <<patients, strikes, reqs>>

\* POST /accept-reschedule/:appointmentId
AcceptReschedule(u, id) ==
  LET a == appts[id]
  IN  IF a.patientUserId # u THEN Refuse("accept-reschedule", 404)
      ELSE IF a.rescheduleRequest.status # "pending"
        THEN Refuse("accept-reschedule", 400)
      ELSE /\ SaveAppointment("accept-reschedule", id,
                  [a EXCEPT !.appointmentDate = a.rescheduleRequest.preferredDate,
                            !.appointmentTime = a.rescheduleRequest.preferredTime,
                            !.status = "confirmed",
                            !.rescheduleRequest.status = "approved"])
           /\ UNCHANGED <<patients, strikes, reqs>>

\* POST /cancel-reschedule/:appointmentId.  rescheduledFrom is a nested path,
\* always an object, so the revert always runs.
CancelReschedule(u, id) ==
  LET a == appts[id]
  IN  IF a.patientUserId # u THEN Refuse("cancel-reschedule", 404)
      ELSE IF a.rescheduleRequest.status # "pending"
        THEN Refuse("cancel-reschedule", 400)
      ELSE /\ SaveAppointment("cancel-reschedule", id,
                  [a EXCEPT !.rescheduleRequest.status = "rejected",
                            !.appointmentDate = a.rescheduledFrom.originalDate,
                            !.appointmentTime = a.rescheduledFrom.originalTime,
                            !.status = "scheduled"])
           /\ UNCHANGED <<patients, strikes, reqs>>

\* ------------------------------------------------------- one request at a time
Create ==
  \/ \E p \in PatientIds, day \in Days, time \in Times : StaffCreate(p, day, time) /\ UNCHANGED <<prior, now, emitted, caller, settings, calls>>
  \/ \E u \in Users, day \in Days, time \in Times : BookAppointment(u, day, time) /\ UNCHANGED <<prior, now, emitted, caller, settings, calls>>
  \/ \E u \in Users, day \in Days, time \in Times : BookAppointmentGuarded(u, day, time) /\ UNCHANGED <<prior, now, emitted, caller, settings, calls>>

\* Every route, on the first appointment of the store: the lifecycle of one
\* appointment.
Next ==
  \/ appts = <<>> /\ Create
  \/ \E id \in Ids, status \in StaffStatuses : UpdateStatus(id, status) /\ UNCHANGED <<prior, now, emitted, caller, settings, calls>>
  \/ \E id \in Ids : ApproveCancellation(id) /\ UNCHANGED <<prior, now, emitted, caller, settings, calls>>
  \/ \E id \in Ids : RejectCancellation(id) /\ UNCHANGED <<prior, now, emitted, caller, settings, calls>>
  \/ \E id \in Ids, day \in Days, time \in Times : Reschedule(id, day, time) /\ UNCHANGED <<prior, now, emitted, caller, settings, calls>>
  \/ \E p \in PatientIds : Unlock(p) /\ UNCHANGED <<prior, now, emitted, caller, settings, calls>>
  \/ \E u \in Users, id \in Ids, late \in BOOLEAN : CancelAppointment(u, id, late) /\ UNCHANGED <<prior, now, emitted, caller, settings, calls>>
  \/ \E u \in Users, id \in Ids, late \in BOOLEAN : RequestCancellation(u, id, late) /\ UNCHANGED <<prior, now, emitted, caller, settings, calls>>
  \/ \E u \in Users, id \in Ids, day \in Days \cup {None}, time \in Times :
        RequestReschedule(u, id, day, time) /\ UNCHANGED <<prior, now, emitted, caller, settings, calls>>
  \/ \E u \in Users, id \in Ids : AcceptReschedule(u, id) /\ UNCHANGED <<prior, now, emitted, caller, settings, calls>>
  \/ \E u \in Users, id \in Ids : CancelReschedule(u, id) /\ UNCHANGED <<prior, now, emitted, caller, settings, calls>>

Spec == Init /\ [][Next]_vars

\* The routes that place appointments in slots and confirm them, on up to
\* MaxAppts appointments.
NextSlots ==
  \/ Create
  \/ \E id \in Ids, status \in {"confirmed", "cancelled"} : UpdateStatus(id, status) /\ UNCHANGED <<prior, now, emitted, caller, settings, calls>>
  \/ \E id \in Ids, day \in Days, time \in Times : Reschedule(id, day, time) /\ UNCHANGED <<prior, now, emitted, caller, settings, calls>>
  \/ \E u \in Users, id \in Ids : CancelReschedule(u, id) /\ UNCHANGED <<prior, now, emitted, caller, settings, calls>>

SpecSlots == Init /\ [][NextSlots]_vars

\* The routes that write a patient record, on up to MaxAppts appointments.
NextStrikes ==
  \/ Create
  \/ \E id \in Ids, status \in StaffStatuses : UpdateStatus(id, status) /\ UNCHANGED <<prior, now, emitted, caller, settings, calls>>
  \/ \E p \in PatientIds : Unlock(p) /\ UNCHANGED <<prior, now, emitted, caller, settings, calls>>

SpecStrikes == Init /\ [][NextStrikes]_vars

\* Bookkeeping: the appointment as it was when it entered
\* cancellation_pending.
TrackCancellation ==
  prior' = [i \in 1..MaxAppts |->
              IF /\ i \in Ids
                 /\ appts[i].status # "cancellation_pending"
                 /\ appts'[i].status = "cancellation_pending"
                THEN Prior(appts[i]) ELSE prior[i]]

\* The routes of a patient's cancellation request and its review, on the
\* first appointment of the store.
NextCancellation ==
  \/ appts = <<>> /\ Create
  \/ \E id \in Ids, status \in {"scheduled", "confirmed"} :
        UpdateStatus(id, status) /\ TrackCancellation /\ UNCHANGED <<now, emitted, caller, settings, calls>>
  \/ \E u \in Users, id \in Ids, late \in BOOLEAN :
        RequestCancellation(u, id, late) /\ TrackCancellation /\ UNCHANGED <<now, emitted, caller, settings, calls>>
  \/ \E id \in Ids : ApproveCancellation(id) /\ TrackCancellation /\ UNCHANGED <<now, emitted, caller, settings, calls>>
  \/ \E id \in Ids : RejectCancellation(id) /\ TrackCancellation /\ UNCHANGED <<now, emitted, caller, settings, calls>>

SpecCancellation == Init /\ [][NextCancellation]_vars

\* Bookkeeping: the appointment as it was when it entered
\* reschedule_pending.
TrackReschedule ==
  prior' = [i \in 1..MaxAppts |->
              IF /\ i \in Ids
                 /\ appts[i].status # "reschedule_pending"
                 /\ appts'[i].status = "reschedule_pending"
                THEN Prior(appts[i]) ELSE prior[i]]

\* The routes that propose, request, accept and reject a reschedule, on the
\* first appointment of the store.
NextReschedule ==
  \/ appts = <<>> /\ Create
  \/ \E id \in Ids, status \in {"scheduled", "confirmed"} :
        UpdateStatus(id, status) /\ TrackReschedule /\ UNCHANGED <<now, emitted, caller, settings, calls>>
  \/ \E id \in Ids, day \in Days, time \in Times :
        Reschedule(id, day, time) /\ TrackReschedule /\ UNCHANGED <<now, emitted, caller, settings, calls>>
  \/ \E u \in Users, id \in Ids, day \in Days \cup {None}, time \in Times :
        RequestReschedule(u, id, day, time) /\ TrackReschedule /\ UNCHANGED <<now, emitted, caller, settings, calls>>
  \/ \E u \in Users, id \in Ids : AcceptReschedule(u, id) /\ TrackReschedule /\ UNCHANGED <<now, emitted, caller, settings, calls>>
  \/ \E u \in Users, id \in Ids : CancelReschedule(u, id) /\ TrackReschedule /\ UNCHANGED <<now, emitted, caller, settings, calls>>

SpecReschedule == Init /\ [][NextReschedule]_vars

\* ------------------------------------------- requests interleaved at awaits
\* POST / up to the conflict query: the handler has looked the patient up and
\* found no scheduled or confirmed appointment in the slot.
CreateCheck(r, p, day, time) ==
  LET date == ParseISODate(day)
  IN  /\ reqs[r].pc = "idle"
      /\ IF ~patients[p].exists THEN Refuse("create", 404)
         ELSE IF StaffCreateConflict(date, time) THEN RefuseConflict("create", date, time)
         ELSE /\ reqs' = [reqs EXCEPT ![r] =
                            [IdleReq EXCEPT !.pc = "create-save", !.patient = p,
                                            !.date = date, !.time = time]]
              /\ UNCHANGED <<appts, patients, strikes, resp>>

\* An insert that repeats the conflict query at the moment of the write.
CreateSaveChecked(r) ==
  LET q == reqs[r]
      a == NewAppointment(q.patient, LinkedUser(q.patient), q.date, q.time, "staff")
  IN  /\ q.pc = "create-save"
      /\ reqs' = [reqs EXCEPT ![r] = IdleReq]
      /\ UNCHANGED <<patients, strikes>>
      /\ IF StaffCreateConflict(q.date, q.time)
           THEN /\ resp' = Response("create", 400)
                /\ appts' = appts
         ELSE IF ~SaveValid(a)
           THEN /\ resp' = Response("create", 500)
                /\ appts' = appts
           ELSE /\ Len(appts) < MaxAppts
                /\ appts' = Append(appts, a)
                /\ resp' = Response("create", 201)

\* POST / from appointment.save() on: the insert, with no second look at the
\* slot.
CreateSave(r) ==
  LET q == reqs[r]
      a == NewAppointment(q.patient, LinkedUser(q.patient), q.date, q.time, "staff")
  IN  /\ q.pc = "create-save"
      /\ reqs' = [reqs EXCEPT ![r] = IdleReq]
      /\ UNCHANGED <<patients, strikes>>
      /\ IF ~SaveValid(a)
           THEN /\ resp' = Response("create", 500)
                /\ appts' = appts
           ELSE /\ Len(appts) < MaxAppts
                /\ appts' = Append(appts, a)
                /\ resp' = Response("create", 201)

\* PATCH /:id/status, Appointment.findById: the handler holds the document
\* and the status it carried when loaded.
StatusLoad(r, id, status) ==
  /\ reqs[r].pc = "idle"
  /\ reqs' = [reqs EXCEPT ![r] =
               [IdleReq EXCEPT !.pc = "status-loaded", !.apt = id,
                               !.patient = appts[id].patient,
                               !.status = status, !.prev = appts[id].status]]
  /\ UNCHANGED <<appts, patients, strikes, resp>>

\* PATCH /:id/status : whether the handler goes through the patient record,
\* decided on what it loaded.
TouchesPatient(q) ==
  /\ q.patient # None
  /\ \/ q.status = "confirmed"
     \/ q.status = "no-show" /\ q.prev # "no-show"

\* PATCH /:id/status, Patient.findById
StatusReadPatient(r) ==
  LET q == reqs[r]
  IN  /\ q.pc = "status-loaded"
      /\ TouchesPatient(q)
      /\ q.status = "no-show" => patients[q.patient].noShowCount < MaxNoShow
      /\ reqs' = [reqs EXCEPT ![r].pc = "status-patient",
                              ![r].pt = patients[q.patient]]
      /\ UNCHANGED <<appts, patients, strikes, resp>>

\* A patient write that skips the strike when the stored appointment has
\* become no-show since the handler loaded it.
PatientWrittenUnlessNoShow(q, stored) ==
  IF ~q.pt.exists THEN stored
  ELSE IF q.status = "confirmed"
    THEN [stored EXCEPT !.status = ConfirmedPatient(q.pt).status]
  ELSE IF appts[q.apt].status = "no-show" THEN stored
  ELSE [stored EXCEPT !.noShowCount = NoShowPatient(q.pt).noShowCount,
                      !.appointmentLocked =
                         IF NoShowPatient(q.pt).appointmentLocked THEN TRUE ELSE @]

\* PATCH /:id/status, patient.save(): the modified paths of the patient the
\* handler read, written over the stored record.
PatientWritten(q, stored) ==
  IF ~q.pt.exists THEN stored
  ELSE IF q.status = "confirmed"
    THEN [stored EXCEPT !.status = ConfirmedPatient(q.pt).status]
  ELSE [stored EXCEPT !.noShowCount = NoShowPatient(q.pt).noShowCount,
                      !.appointmentLocked =
                         IF NoShowPatient(q.pt).appointmentLocked THEN TRUE ELSE @]

StatusWritePatient(r) ==
  LET q == reqs[r]
  IN  /\ q.pc = "status-patient"
      /\ patients' = [patients EXCEPT ![q.patient] = PatientWritten(q, @)]
      /\ reqs' = [reqs EXCEPT ![r].pc = "status-save"]
      /\ UNCHANGED <<appts, strikes, resp>>

\* PATCH /:id/status, appointment.save()
StatusSave(r) ==
  LET q == reqs[r]
  IN  /\ \/ q.pc = "status-save"
         \/ q.pc = "status-loaded" /\ ~TouchesPatient(q)
      /\ q.status = "no-show" /\ appts[q.apt].status # "no-show"
           => strikes[appts[q.apt].patient] < MaxNoShow
      /\ SaveAppointment("status", q.apt, StatusUpdated(appts[q.apt], q.prev, q.status))
      /\ strikes' = Observed(q.apt)
      /\ reqs' = [reqs EXCEPT ![r] = IdleReq]
      /\ UNCHANGED patients

\* Inputs of the interleaved requests.
RaceTimes == {"09:00 AM"}
RaceStatuses == {"scheduled", "confirmed", "no-show"}

NextRace ==
  \/ \E r \in 1..NumReqs, p \in PatientIds, day \in Days, time \in RaceTimes :
        CreateCheck(r, p, day, time) /\ UNCHANGED <<prior, now, emitted, caller, settings, calls>>
  \/ \E r \in 1..NumReqs : CreateSave(r) /\ UNCHANGED <<prior, now, emitted, caller, settings, calls>>
  \/ \E r \in 1..NumReqs, id \in Ids, status \in RaceStatuses :
        StatusLoad(r, id, status) /\ UNCHANGED <<prior, now, emitted, caller, settings, calls>>
  \/ \E r \in 1..NumReqs : StatusReadPatient(r) /\ UNCHANGED <<prior, now, emitted, caller, settings, calls>>
  \/ \E r \in 1..NumReqs : StatusWritePatient(r) /\ UNCHANGED <<prior, now, emitted, caller, settings, calls>>
  \/ \E r \in 1..NumReqs : StatusSave(r) /\ UNCHANGED <<prior, now, emitted, caller, settings, calls>>

SpecRace == Init /\ [][NextRace]_vars

\* The routes that move an appointment or ask to move it, on up to MaxAppts
\* appointments.
NextProposals ==
  \/ Create
  \/ \E id \in Ids, day \in Days, time \in Times :
        Reschedule(id, day, time) /\ UNCHANGED <<prior, now, emitted, caller, settings, calls>>
  \/ \E u \in Users, id \in Ids, day \in Days, time \in Times :
        RequestReschedule(u, id, day, time) /\ UNCHANGED <<prior, now, emitted, caller, settings, calls>>

SpecProposals == Init /\ [][NextProposals]_vars

\* hoursDifference < 2, with timeDifference = appointmentDateTime - now.
TooLate(a) == AppointmentDateTime(a) - now < CutoffHours * 60

\* Time passes between requests.
Tick ==
  /\ \E t \in Instants : t > now /\ now' = t
  /\ UNCHANGED <<appts, patients, strikes, reqs, resp, prior, emitted, caller, settings, calls>>

\* The patient's requests on the first appointment as the clock runs towards
\* its start.
NextCutoff ==
  \/ appts = <<>> /\ Create
  \/ Tick
  \/ \E id \in Ids, status \in {"scheduled", "confirmed"} :
        UpdateStatus(id, status) /\ UNCHANGED <<prior, now, emitted, caller, settings, calls>>
  \/ \E u \in Users, id \in Ids :
        CancelAppointment(u, id, TooLate(appts[id])) /\ UNCHANGED <<prior, now, emitted, caller, settings, calls>>
  \/ \E u \in Users, id \in Ids :
        RequestCancellation(u, id, TooLate(appts[id])) /\ UNCHANGED <<prior, now, emitted, caller, settings, calls>>
  \/ \E u \in Users, id \in Ids, day \in Days \cup {None}, time \in Times :
        RequestReschedule(u, id, day, time) /\ UNCHANGED <<prior, now, emitted, caller, settings, calls>>

SpecCutoff == Init /\ [][NextCutoff]_vars

\* The routes that place an appointment, with any time the validators let
\* through.
NextPlacement ==
  \/ \E p \in PatientIds, day \in Days, time \in AnyTimes :
        StaffCreate(p, day, time) /\ UNCHANGED <<prior, now, emitted, caller, settings, calls>>
  \/ \E u \in Users, day \in Days, time \in AnyTimes :
        BookAppointment(u, day, time) /\ UNCHANGED <<prior, now, emitted, caller, settings, calls>>
  \/ \E u \in Users, day \in Days, time \in AnyTimes :
        BookAppointmentGuarded(u, day, time) /\ UNCHANGED <<prior, now, emitted, caller, settings, calls>>
  \/ \E id \in Ids, day \in Days, time \in AnyTimes :
        Reschedule(id, day, time) /\ UNCHANGED <<prior, now, emitted, caller, settings, calls>>

SpecPlacement == Init /\ [][NextPlacement]_vars

\* Portal booking next to the staff routes that write the patient record of
\* the account; statuses are updated while the patient record exists.
NextBooking ==
  \/ \E u \in Users, time \in Times :
        BookAppointment(u, "Mon", time) /\ UNCHANGED <<prior, now, emitted, caller, settings, calls>>
  \/ \E u \in Users, time \in Times :
        BookAppointmentGuarded(u, "Mon", time) /\ UNCHANGED <<prior, now, emitted, caller, settings, calls>>
  \/ \E id \in Ids, status \in {"scheduled", "no-show"} :
        /\ patients[appts[id].patient].exists
        /\ UpdateStatus(id, status) /\ UNCHANGED <<prior, now, emitted, caller, settings, calls>>
  \/ \E p \in Users, status \in PatientStatuses :
        UpdatePatient(p, status) /\ UNCHANGED <<prior, now, emitted, caller, settings, calls>>
  \/ \E p \in Users : DeletePatient(p) /\ UNCHANGED <<prior, now, emitted, caller, settings, calls>>

SpecBooking == Init /\ [][NextBooking]_vars

\* A status update that emits without looking for a linked account.
StatusEmitsUnlinked(a, status) ==
  LET strike == CountsNoShow(status, a.status, a.patient)
  IN  (IF status = "confirmed" THEN {"appointment:confirmed"} ELSE {})
      \cup (IF status = "cancelled" THEN {"appointment:cancelled"} ELSE {})
      \cup (IF status = "rescheduled" THEN {"appointment:rescheduled"} ELSE {})
      \cup (IF status = "completed" THEN {"appointment:completed"} ELSE {})
      \cup (IF strike THEN {"appointment:no_show"} ELSE {})

\* PATCH /:id/status : the events the handler emits, all before
\* appointment.save().
StatusEmits(a, status) ==
  LET linked == a.patientUserId # None
      strike == CountsNoShow(status, a.status, a.patient)
  IN  (IF linked /\ status = "confirmed" THEN {"appointment:confirmed"} ELSE {})
      \cup (IF linked /\ status = "cancelled" THEN {"appointment:cancelled"} ELSE {})
      \cup (IF linked /\ status = "rescheduled" THEN {"appointment:rescheduled"} ELSE {})
      \cup (IF linked /\ status = "completed" THEN {"appointment:completed"} ELSE {})
      \cup (IF linked /\ strike THEN {"appointment:no_show"} ELSE {})

\* PATCH /:id/approve-cancellation : the event emitted after the save.
ApproveEmits(a) ==
  IF resp'.code = 200 /\ a.patientUserId # None
    THEN {"appointment:cancelled"} ELSE {}

\* PATCH /:id/reschedule : the event emitted after the save, chosen on the
\* status the appointment was saved with.
RescheduleEmits(id) ==
  IF resp'.code = 200 /\ appts'[id].patientUserId # None
    THEN IF appts'[id].status = "reschedule_pending"
           THEN {"appointment:reschedule_pending"}
           ELSE {"appointment:rescheduled"}
    ELSE {}

\* The staff routes with what they emit, on the first appointment; staff
\* notes of any length go with a status update.
NextNotify ==
  \/ appts = <<>> /\ Create
  \/ \E id \in Ids, status \in StaffStatuses, staffNotes \in NotesLengths :
        /\ UpdateStatusWith(id, status, staffNotes)
        /\ emitted' = StatusEmits(appts[id], status)
        /\ UNCHANGED <<prior, now, caller, settings, calls>>
  \/ \E u \in Users, id \in Ids :
        /\ RequestCancellation(u, id, FALSE)
        /\ emitted' = {}
        /\ UNCHANGED <<prior, now, caller, settings, calls>>
  \/ \E id \in Ids :
        /\ ApproveCancellation(id)
        /\ emitted' = ApproveEmits(appts[id])
        /\ UNCHANGED <<prior, now, caller, settings, calls>>
  \/ \E id \in Ids, day \in Days, time \in Times :
        /\ Reschedule(id, day, time)
        /\ emitted' = RescheduleEmits(id)
        /\ UNCHANGED <<prior, now, caller, settings, calls>>

SpecNotify == Init /\ [][NextNotify]_vars

\* ------------------------------------------------------------------ claims
SameSlot(a, b) ==
  /\ a.doctorName = b.doctorName
  /\ a.appointmentDate = b.appointmentDate
  /\ a.appointmentTime = b.appointmentTime

\* The step stored a new appointment.
Stored == Len(appts') = Len(appts) + 1

Newest == appts'[Len(appts')]

C2_NoTwoConfirmed ==
  \A i, j \in Ids :
    (i # j /\ appts[i].status = "confirmed" /\ appts[j].status = "confirmed")
    => ~SameSlot(appts[i], appts[j])

C4_SaveStoresWhatPassed ==
  [][\A r \in 1..NumReqs :
       (/\ reqs[r].pc = "create-save"
        /\ reqs'[r].pc = "idle"
        /\ reqs[r].date.day \in SchemaWorkingDays)
       => /\ Stored
          /\ resp' = Response("create", 201)
          /\ Newest.status = "scheduled"
          /\ Newest.appointmentDate = reqs[r].date
          /\ Newest.appointmentTime = reqs[r].time]_vars

\* Two staff creates for one free slot are both stored as scheduled: no
\* appointment ever left a blocking status, so both passed the check before
\* either was written.
C4_BothStored ==
  /\ Len(appts) = 2
  /\ resp = Response("create", 201)
  /\ appts[1].status = "scheduled" /\ appts[2].status = "scheduled"
  /\ appts[1].bookingSource = "staff" /\ appts[2].bookingSource = "staff"
  /\ SameSlot(appts[1], appts[2])
  /\ \A p \in PatientIds : strikes[p] = 0 /\ patients[p].noShowCount = 0

C6_LockedIffThreshold ==
  \A p \in PatientIds :
    patients[p].appointmentLocked <=> patients[p].noShowCount >= LockThreshold

\* The third strike locked a patient.
C6_Locked ==
  \E p \in PatientIds :
    patients[p].appointmentLocked /\ patients[p].noShowCount = LockThreshold

\* C7: while a patient's appointmentLocked is true, no appointment is stored
\* for that patient.
C7_LockedStoresNothing ==
  [][Stored => ~patients[Newest.patient].appointmentLocked]_vars

\* C8: a request that loaded a status other than no-show applies its strike
\* to the count it read, whatever the stored appointment has become since.
C8_StrikeFromLoadedStatus ==
  [][\A r \in 1..NumReqs :
       (/\ reqs[r].pc = "status-patient"
        /\ reqs'[r].pc = "status-save"
        /\ reqs[r].status = "no-show"
        /\ reqs[r].pt.exists)
       => patients'[reqs[r].patient].noShowCount = reqs[r].pt.noShowCount + 1]_vars

\* One appointment, one stored transition into no-show, and a count of 2.
C8_DoubleCount ==
  \E p \in PatientIds :
    /\ Len(appts) = 1
    /\ appts[1].patient = p
    /\ appts[1].status = "no-show"
    /\ strikes[p] = 1
    /\ patients[p].noShowCount = 2
    /\ \A r \in 1..NumReqs : reqs[r].pc = "idle"

C10_TerminalStays ==
  [][\A i \in Ids :
       appts[i].status \in {"completed", "cancelled"}
       => appts'[i].status = appts[i].status]_vars

\* C11: a rejected cancellation request returns the appointment to the
\* status it had when the request was submitted and marks the request
\* rejected.
C11_RejectRestoresPrevious ==
  [][\A i \in Ids :
       (/\ appts[i].status = "cancellation_pending"
        /\ resp' = Response("reject-cancellation", 200))
       => /\ appts'[i].status = prior[i].status
          /\ appts'[i].cancellationRequest.status = "rejected"]_vars

C13_CancelRevertsToOriginal ==
  [][\A i \in Ids :
       (/\ appts[i].status = "reschedule_pending"
        /\ resp' = Response("cancel-reschedule", 200))
       => /\ appts'[i].status = prior[i].status
          /\ appts'[i].appointmentDate = prior[i].date
          /\ appts'[i].appointmentTime = prior[i].time
          /\ appts'[i].rescheduleRequest.status = "rejected"]_vars

\* Two appointments of one doctor on one calendar day at one time.
SameCalendarSlot(a, b) ==
  /\ a.doctorName = b.doctorName
  /\ a.appointmentDate.day = b.appointmentDate.day
  /\ a.appointmentTime = b.appointmentTime

\* C14: a staff reschedule of a scheduled or confirmed appointment snapshots
\* the old date and time into rescheduledFrom; a staff booking becomes
\* confirmed at the new slot, a portal booking becomes reschedule_pending
\* with a pending request holding the new slot, which is also its date and
\* time; and no move succeeds into a slot that another scheduled, confirmed
\* or reschedule_pending appointment holds.
C14_StaffRescheduleBySource ==
  [][\A i \in Ids :
       (/\ appts[i].status \in {"scheduled", "confirmed"}
        /\ resp' = Response("reschedule", 200)
        /\ appts'[i] # appts[i])
       => /\ appts'[i].rescheduledFrom =
                [originalDate |-> appts[i].appointmentDate,
                 originalTime |-> appts[i].appointmentTime]
          /\ IF appts[i].bookingSource = "staff"
               THEN appts'[i].status = "confirmed"
               ELSE /\ appts'[i].status = "reschedule_pending"
                    /\ appts'[i].rescheduleRequest.status = "pending"
                    /\ appts'[i].rescheduleRequest.preferredDate = appts'[i].appointmentDate
                    /\ appts'[i].rescheduleRequest.preferredTime = appts'[i].appointmentTime
          /\ ~ \E j \in Ids \ {i} :
                 /\ appts[j].status \in {"scheduled", "confirmed", "reschedule_pending"}
                 /\ SameCalendarSlot(appts[j], appts'[i])]_vars

\* The slot a pending reschedule request proposes.
ProposedSlot(a) ==
  [date |-> a.rescheduleRequest.preferredDate,
   time |-> a.rescheduleRequest.preferredTime]

\* C15: while an appointment is reschedule_pending with a pending request
\* proposing a slot, no staff reschedule and no patient reschedule request
\* of another appointment of the doctor to that slot succeeds.
C15_ProposedSlotBlocks ==
  [][\A i \in Ids : \A j \in Ids \ {i} :
       (/\ appts[j].status = "reschedule_pending"
        /\ appts[j].rescheduleRequest.status = "pending"
        /\ appts[j].doctorName = appts[i].doctorName
        /\ appts'[i] # appts[i])
       => /\ resp' = Response("reschedule", 200)
             => [date |-> appts'[i].appointmentDate,
                 time |-> appts'[i].appointmentTime] # ProposedSlot(appts[j])
          /\ resp' = Response("request-reschedule", 200)
             => ProposedSlot(appts'[i]) # ProposedSlot(appts[j])]_vars

\* C16: a portal booking is stored only for an account that holds no
\* scheduled, confirmed, cancellation_pending or reschedule_pending
\* appointment, and a booking is refused for an outstanding appointment only
\* when some account holds one.
C16_OneOutstandingBooking ==
  [][/\ (resp'.op \in {"book", "book-guarded"} /\ Stored)
        => ~ HasPendingAppointment(Newest.patientUserId)
     /\ (resp'.op \in {"book", "book-guarded"} /\ resp'.code = 400
         /\ resp'.slot = NoSlot)
        => \E u \in Users : HasPendingAppointment(u)]_vars

\* C17: a patient's cancellation request and a patient's reschedule request
\* are refused, with the appointment unchanged, when the appointment starts
\* less than 120 minutes after the clock reading at which the request is
\* answered, and a request that passes
\* every other check is accepted when the start is 120 minutes or more away.
C17_TwoHourCutoff ==
  [][\A i \in Ids :
       /\ (/\ now' = now
           /\ resp'.op \in {"request-cancellation", "request-reschedule"}
           /\ AppointmentDateTime(appts[i]) - now < 120)
          => /\ resp'.code # 200
             /\ appts' = appts
       /\ (/\ now' = now
           /\ AppointmentDateTime(appts[i]) - now >= 120
           /\ appts[i].patientUserId \in Users
           /\ \/ /\ resp'.op = "request-cancellation"
                 /\ appts[i].status \in {"scheduled", "confirmed", "reschedule_pending"}
              \/ /\ resp'.op = "request-reschedule"
                 /\ appts[i].status \in {"scheduled", "confirmed", "cancellation_pending"})
          => resp'.code = 200]_vars

\* C18: approve-cancellation answers 200 exactly for an appointment that is
\* cancellation_pending with a patient as requester, and then leaves it
\* cancelled with the request approved; in every other case it answers an
\* error and stores nothing.
C18_ApproveOnlyPending ==
  [][resp'.op = "approve-cancellation"
     => \A i \in Ids :
          IF /\ appts[i].status = "cancellation_pending"
             /\ appts[i].cancellationRequest.requestedBy # None
            THEN /\ resp'.code = 200
                 /\ appts'[i].status = "cancelled"
                 /\ appts'[i].cancellationRequest.status = "approved"
            ELSE /\ resp'.code \in {400, 404}
                 /\ appts' = appts]_vars

\* A cancellation request has just been approved.
C18_Approved ==
  \E i \in Ids :
    /\ resp = Response("approve-cancellation", 200)
    /\ appts[i].status = "cancelled"
    /\ appts[i].cancellationRequest.status = "approved"
    /\ appts[i].cancellationRequest.requestedBy \in Users

\* C19: whenever an appointment of a patient becomes confirmed, by whichever
\* operation, a patient record with status New becomes Active and any other
\* patient record keeps its status.
C19_ConfirmationActivates ==
  [][\A i \in Ids :
       (/\ appts[i].status # "confirmed"
        /\ appts'[i].status = "confirmed"
        /\ appts[i].patient # None
        /\ patients[appts[i].patient].exists)
       => patients'[appts[i].patient].status =
            IF patients[appts[i].patient].status = "New"
              THEN "Active"
              ELSE patients[appts[i].patient].status]_vars

\* The time is one of the slots generated from the doctor's hours of the day.
InWindow(day, time) ==
  /\ DoctorHours(day).enabled
  /\ ConvertTo24Hour(time) \in
       GenerateTimeSlots(DoctorHours(day).start, DoctorHours(day).end, SlotMinutes)

\* C20: a staff create, a portal booking or a staff reschedule places an
\* appointment only on a weekday the doctor is enabled and at a time that is
\* a 30-minute slot of the doctor's hours of that weekday.
C20_PlacedInsideWindow ==
  [][/\ Stored => InWindow(Newest.appointmentDate.day, Newest.appointmentTime)
     /\ \A i \in Ids :
          (resp' = Response("reschedule", 200) /\ appts'[i] # appts[i])
          => InWindow(appts'[i].appointmentDate.day, appts'[i].appointmentTime)]_vars

\* C21: an appointment becomes no-show only from scheduled or confirmed,
\* and a patient's noShowCount and appointmentLocked change upwards only in
\* a step that takes one of the patient's scheduled or confirmed
\* appointments to no-show.
C21_NoShowOnlyFromActive ==
  [][/\ \A i \in Ids :
          (appts[i].status # "no-show" /\ appts'[i].status = "no-show")
          => appts[i].status \in {"scheduled", "confirmed"}
     /\ \A p \in PatientIds :
          (\/ patients'[p].noShowCount > patients[p].noShowCount
           \/ (patients'[p].appointmentLocked /\ ~patients[p].appointmentLocked))
          => \E i \in Ids :
               /\ appts[i].patient = p
               /\ appts[i].status \in {"scheduled", "confirmed"}
               /\ appts'[i].status = "no-show"]_vars

\* C22: a portal booking that is refused by a business rule (400 or 403)
\* leaves the patients and the appointments as they were.
C22_RefusedBookingStoresNothing ==
  [][(resp'.op \in {"book", "book-guarded"} /\ resp'.code \in {400, 403})
     => /\ patients' = patients
        /\ appts' = appts]_vars

\* C23: a staff status update that ends in an error because the appointment
\* could not be saved leaves the patients as they were.
C23_StatusUpdateAtomic ==
  [][resp' = Response("status", 500) => patients' = patients]_vars

\* C24: a staff status update, cancellation approval or reschedule emits an
\* event only for an appointment that has a linked portal account.
C24_EmitsOnlyWhenLinked ==
  [][\A i \in Ids :
       (/\ resp'.op \in {"status", "approve-cancellation", "reschedule"}
        /\ appts[i].patientUserId = None)
       => emitted' = {}]_vars

\* An appointment without a portal account has just been confirmed by a
\* staff request that emitted nothing.
C24_UnlinkedConfirmedSilently ==
  \E i \in Ids :
    /\ resp.op \in {"status", "reschedule"}
    /\ resp.code = 200
    /\ appts[i].patientUserId = None
    /\ appts[i].status = "confirmed"
    /\ emitted = {}

\* C28: a staff request whose appointment save fails has emitted no event.
C28_NoEventWithoutSave ==
  [][(/\ resp'.op \in {"status", "approve-cancellation", "reschedule"}
      /\ resp'.code # 200)
     => emitted' = {}]_vars

\* C25: in every state an appointment's rescheduleRequest.status is pending
\* exactly when its status is reschedule_pending, and its
\* cancellationRequest.status is pending exactly when its status is
\* cancellation_pending.
C25_RequestMatchesStatus ==
  \A i \in Ids :
    /\ appts[i].rescheduleRequest.status = "pending"
         <=> appts[i].status = "reschedule_pending"
    /\ appts[i].cancellationRequest.status = "pending"
         <=> appts[i].status = "cancellation_pending"

\* C26: accept-reschedule applies a pending reschedule only when staff
\* created it; it never moves the appointment to a slot the patient asked
\* for.
C26_AcceptOnlyStaffProposal ==
  [][\A i \in Ids :
       resp' = Response("accept-reschedule", 200)
       => /\ appts[i].status = "reschedule_pending"
          /\ appts[i].rescheduleRequest.requestedBy = None]_vars

\* C27: a portal booking that is reschedule_pending on a staff proposal
\* becomes confirmed either by the patient's accept-reschedule or at the
\* slot it had before the proposal.
C27_StaffProposalNeedsAcceptance ==
  [][\A i \in Ids :
       (/\ appts[i].bookingSource = "patient_portal"
        /\ appts[i].status = "reschedule_pending"
        /\ appts[i].rescheduleRequest.status = "pending"
        /\ appts[i].rescheduleRequest.requestedBy = None
        /\ appts'[i].status = "confirmed")
       => \/ resp'.op = "accept-reschedule"
          \/ /\ appts'[i].appointmentDate = prior[i].date
             /\ appts'[i].appointmentTime = prior[i].time]_vars

\* ------------------------------------------------- portal requests by account
\* The accounts that can sign in to the portal: the one that books and one
\* that owns no appointment.
Accounts == Users \cup {"u2"}

PortalMutations == {"cancel", "request-cancellation", "request-reschedule",
                    "accept-reschedule", "cancel-reschedule"}

\* Bookkeeping: who sent the request and which appointment it named.
Called(u, id) ==
  /\ caller' = [account |-> u, appointment |-> id]
  /\ UNCHANGED <<prior, now, emitted, settings, calls>>

\* Staff and portal bookings on Monday, then every portal route that changes an
\* appointment, called by either account on either appointment.
NextOwnership ==
  \/ \E p \in PatientIds, time \in Times :
        StaffCreate(p, "Mon", time) /\ UNCHANGED <<prior, now, emitted, caller, settings, calls>>
  \/ \E u \in Users, time \in Times :
        BookAppointment(u, "Mon", time) /\ UNCHANGED <<prior, now, emitted, caller, settings, calls>>
  \/ \E u \in Accounts, id \in Ids, late \in BOOLEAN :
        CancelAppointment(u, id, late) /\ Called(u, id)
  \/ \E u \in Accounts, id \in Ids, late \in BOOLEAN :
        RequestCancellation(u, id, late) /\ Called(u, id)
  \/ \E u \in Accounts, id \in Ids, day \in {"Mon", None}, time \in Times :
        RequestReschedule(u, id, day, time) /\ Called(u, id)
  \/ \E u \in Accounts, id \in Ids : AcceptReschedule(u, id) /\ Called(u, id)
  \/ \E u \in Accounts, id \in Ids : CancelReschedule(u, id) /\ Called(u, id)

SpecOwnership == Init /\ [][NextOwnership]_vars

GetSettingsFind(c) ==
  /\ calls[c].pc = "idle"
  /\ calls' = [calls EXCEPT ![c] =
                 IF settings # <<>>
                   THEN [pc |-> "done", doc |-> Head(settings)]
                   ELSE [pc |-> "save", doc |-> c]]
  /\ UNCHANGED <<appts, patients, strikes, reqs, resp, prior, now, emitted, caller, settings>>

\* settings.save() of the default document, then return settings.
GetSettingsSave(c) ==
  /\ calls[c].pc = "save"
  /\ settings' = Append(settings, calls[c].doc)
  /\ calls' = [calls EXCEPT ![c].pc = "done"]
  /\ UNCHANGED <<appts, patients, strikes, reqs, resp, prior, now, emitted, caller>>

\* Concurrent getSettings calls on an empty collection, interleaved at
\* their awaits.
NextSettings ==
  \/ \E c \in 1..NumCalls : GetSettingsFind(c)
  \/ \E c \in 1..NumCalls : GetSettingsSave(c)

SpecSettings == Init /\ [][NextSettings]_vars

\* C30: the settings collection never holds more than one document, and
\* every getSettings call that has returned holds the same document.
C30_OneSettingsDocument ==
  /\ Len(settings) <= 1
  /\ \A c, d \in 1..NumCalls :
       calls[c].pc = "done" /\ calls[d].pc = "done" => calls[c].doc = calls[d].doc

====
